---------------------------- MODULE Spec2Model ----------------------------
(***************************************************************************)
(* Sprite-atlas builder: scripts/atlas.js (image builder) and              *)
(* scripts/generate_atlas_text.js (descriptor builder).                    *)
(*                                                                         *)
(* Both scripts are modelled as separate processes over one unchanged      *)
(* input tree.  A step of a process is one event-loop turn: the completion *)
(* of the I/O it awaits (readdir, Jimp.read, write) together with all the  *)
(* synchronous code and promise continuations that follow it up to the     *)
(* next I/O.                                                               *)
(*                                                                         *)
(* Strings are sequences of one-character strings, ordered by UTF-16 code  *)
(* unit as JavaScript orders them.                                         *)
(***************************************************************************)
EXTENDS Integers, Sequences, FiniteSets, TLC

\* Largest width/height of a source image in the model.
MaxDim == 1

Scripts == {"atlas", "text"}

-----------------------------------------------------------------------------
(* JavaScript strings *)

\* UTF-16 code units of the characters the model uses.
Code ==
  [c \in {".", "/", "0", "1", "2", "3", "4", "5", "6", "7", "8", "9",
          "B", "G", "N", "P", "\\",
          "a", "b", "c", "d", "e", "g", "i", "j", "m", "n", "p", "r", "s",
          "t", "x", "y"} |->
     CASE c = "." -> 46 [] c = "/" -> 47
       [] c = "0" -> 48 [] c = "1" -> 49 [] c = "2" -> 50 [] c = "3" -> 51
       [] c = "4" -> 52 [] c = "5" -> 53 [] c = "6" -> 54 [] c = "7" -> 55
       [] c = "8" -> 56 [] c = "9" -> 57
       [] c = "B" -> 66 [] c = "G" -> 71 [] c = "N" -> 78 [] c = "P" -> 80
       [] c = "\\" -> 92
       [] c = "a" -> 97 [] c = "b" -> 98 [] c = "c" -> 99 [] c = "d" -> 100
       [] c = "e" -> 101 [] c = "g" -> 103 [] c = "i" -> 105
       [] c = "j" -> 106 [] c = "m" -> 109 [] c = "n" -> 110
       [] c = "p" -> 112 [] c = "r" -> 114 [] c = "s" -> 115
       [] c = "t" -> 116 [] c = "x" -> 120 [] c = "y" -> 121]

\* String.prototype.toLowerCase on one character.
LowerChar(c) ==
  CASE c = "B" -> "b" [] c = "G" -> "g" [] c = "N" -> "n" [] c = "P" -> "p"
    [] OTHER -> c

ToLowerCase(str) == [i \in 1..Len(str) |-> LowerChar(str[i])]

\* The first position at or after i where a and b differ or one of them ends.
RECURSIVE FirstDifference(_, _, _)
FirstDifference(a, b, i) ==
  IF i > Len(a) \/ i > Len(b) THEN i
  ELSE IF a[i] # b[i] THEN i
  ELSE FirstDifference(a, b, i + 1)

\* a < b as JavaScript compares strings: by the code units at the first
\* difference, a proper prefix first.
StrLess(a, b) ==
  LET k == FirstDifference(a, b, 1)
  IN  IF k > Len(b) THEN FALSE
      ELSE IF k > Len(a) THEN TRUE
      ELSE Code[a[k]] < Code[b[k]]

\* String.prototype.lastIndexOf(ch): 0-based index of the last ch, -1 if none
\* (the search runs backwards from position i, 1-based).
RECURSIVE LastIndexFrom(_, _, _)
LastIndexFrom(str, ch, i) ==
  IF i = 0 THEN 0 - 1
  ELSE IF str[i] = ch THEN i - 1
  ELSE LastIndexFrom(str, ch, i - 1)

LastIndexOf(str, ch) == LastIndexFrom(str, ch, Len(str))

\* String.prototype.substring(0, end); a negative end counts as 0.
Substring0(str, end) ==
  LET e == IF end < 0 THEN 0 ELSE IF end > Len(str) THEN Len(str) ELSE end
  IN  SubSeq(str, 1, e)

\* str.replace(/\\/g, '/')
ReplaceBackslashes(str) ==
  [i \in 1..Len(str) |-> IF str[i] = "\\" THEN "/" ELSE str[i]]

\* Template-literal rendering of a non-negative integer: its decimal digits.
Digit(d) ==
  CASE d = 0 -> "0" [] d = 1 -> "1" [] d = 2 -> "2" [] d = 3 -> "3"
    [] d = 4 -> "4" [] d = 5 -> "5" [] d = 6 -> "6" [] d = 7 -> "7"
    [] d = 8 -> "8" [] d = 9 -> "9"

RECURSIVE NumberToString(_)
NumberToString(n) ==
  IF n < 10 THEN <<Digit(n)>>
  ELSE Append(NumberToString(n \div 10), Digit(n % 10))

-----------------------------------------------------------------------------
(* Node's path module (POSIX) *)

\* path.join(dir, name) for a plain entry name.
PathJoin(dir, name) == dir \o <<"/">> \o name

\* path.extname(name): from the last '.' of the name to its end; empty when
\* there is no '.' or the only '.' is the first character.
ExtName(name) ==
  LET k == LastIndexOf(name, ".")
  IN  IF k <= 0 THEN <<>> ELSE SubSeq(name, k + 1, Len(name))

\* path.relative(from, to) for a path `to` below the directory `from`.
PathRelative(from, to) == SubSeq(to, Len(from) + 2, Len(to))


\* The part of a path before its last '/', and the part after it.
DirName(p) == SubSeq(p, 1, LastIndexOf(p, "/"))
BaseName(p) == SubSeq(p, LastIndexOf(p, "/") + 2, Len(p))

-----------------------------------------------------------------------------
(* The input tree *)

\* imageDirectory = path.join(__dirname, args[0]); the same for both scripts
\* when they are given the same directory argument.
ImageDirectory == <<"r">>

\* Entry names and paths of the input trees the model draws from.
APng == <<"r","/","a",".","p","n","g">>
BPNG == <<"r","/","B",".","P","N","G">>
XYJpg == <<"r","/","x","\\","y",".","j","p","g">>
CTxt == <<"r","/","c",".","t","x","t">>
DotPng == <<"r","/",".","p","n","g">>
DirA == <<"r","/","a">>
ABJpeg == <<"r","/","a","/","b",".","j","p","e","g">>
DirAC == <<"r","/","a","/","c">>
ACDGif == <<"r","/","a","/","c","/","d",".","g","i","f">>
DirDPng == <<"r","/","d",".","p","n","g">>
DPngEBmp == <<"r","/","d",".","p","n","g","/","e",".","b","m","p">>
DirU == <<"r","/","u">>

\* The shapes of input tree: path -> what the entry is.  "dir" is a listable
\* directory, "locked" a directory whose listing fails, "raster" a file that
\* may hold raster data, "text" a file that holds text.
Shapes ==
  { (ImageDirectory :> "dir"),
    (ImageDirectory :> "locked"),
    (ImageDirectory :> "dir") @@ (CTxt :> "text") @@ (DotPng :> "text")
       @@ (DirDPng :> "dir"),
    (ImageDirectory :> "dir") @@ (APng :> "raster") @@ (BPNG :> "raster")
       @@ (XYJpg :> "raster"),
    (ImageDirectory :> "dir") @@ (APng :> "raster") @@ (CTxt :> "text")
       @@ (DirA :> "dir") @@ (ABJpeg :> "raster"),
    (ImageDirectory :> "dir") @@ (DirA :> "dir") @@ (DirAC :> "dir")
       @@ (ACDGif :> "raster") @@ (DirDPng :> "dir") @@ (DPngEBmp :> "raster"),
    (ImageDirectory :> "dir") @@ (APng :> "raster") @@ (DirU :> "locked") }

NoBitmap == [width |-> 0, height |-> 0]
Garbage == [data |-> "garbage", bitmap |-> NoBitmap]

\* What a raster file may hold: a raster whose header declares dimensions in
\* 0..MaxDim, a raster whose header declares a negative width, a raster whose
\* header declares no height, or undecodable bytes.
RasterContents ==
  { [data |-> "raster", bitmap |-> [width |-> w, height |-> h]] :
       w \in 0..MaxDim, h \in 0..MaxDim }
  \cup { [data |-> "raster", bitmap |-> [width |-> 0 - 1, height |-> 1]],
         [data |-> "raster", bitmap |-> [width |-> 1]],
         Garbage }

\* The names of the entries of directory dir in a shape.
NamesIn(shape, dir) ==
  { BaseName(q) : q \in {r \in DOMAIN shape : r # ImageDirectory /\ DirName(r) = dir} }

Entry(kind, names, content) ==
  [isDirectory |-> kind \in {"dir", "locked"},
   readable    |-> kind # "locked",
   names       |-> names,
   content     |-> content]

TreesOf(shape) ==
  LET rasters == {p \in DOMAIN shape : shape[p] = "raster"}
  IN  { [p \in DOMAIN shape |->
           Entry(shape[p], NamesIn(shape, p),
                 IF p \in rasters THEN c[p] ELSE Garbage)] :
        c \in [rasters -> RasterContents] }

Trees == UNION { TreesOf(shape) : shape \in Shapes }

\* args[2] of the descriptor builder: <<>> when absent, else <<the string>>.
PrefixArguments ==
  { <<>>, << <<>> >>, << <<"s">> >>, << <<"s", "\\", "t">> >> }

-----------------------------------------------------------------------------
(* State *)

VARIABLES
  tree,          \* the input tree: path -> entry (unchanged by the scripts)
  args2,         \* descriptor builder: args[2]
  prependPath,   \* descriptor builder: prependPath
  pc,            \* per script: "init", "scanning", "probing", "writing", "done"
  exitCode,      \* per script: the process exit status (0 until process.exit(1))
  pending,       \* per script: directories whose readdir is in flight
  listing,       \* per script: directory -> entry names in the order readdir gave
  imageFiles,    \* per script: imageFiles
  images,        \* atlas.js: images (each with the file its pixels came from)
  imageData,     \* generate_atlas_text.js: imageData
  maxWidth,      \* per script: maxWidth
  totalHeight,   \* per script: totalHeight
  spritesheet,   \* atlas.js: the canvas and what was composited onto it
  outputContent, \* generate_atlas_text.js: the descriptor text, by lines
  written        \* per script: the output file has been written

vars == <<tree, args2, prependPath, pc, exitCode, pending, listing, imageFiles,
          images, imageData, maxWidth, totalHeight, spritesheet, outputContent,
          written>>

NoSheet == [width |-> 0, height |-> 0, composites |-> <<>>]
NoContent == [size |-> <<>>, regions |-> <<>>]

Init ==
  /\ tree \in Trees
  /\ args2 = <<>>
  /\ prependPath = <<>>
  /\ pc = [s \in Scripts |-> "init"]
  /\ exitCode = [s \in Scripts |-> 0]
  /\ pending = [s \in Scripts |-> {}]
  /\ listing = [s \in Scripts |-> <<>>]
  /\ imageFiles = [s \in Scripts |-> <<>>]
  /\ images = <<>>
  /\ imageData = <<>>
  /\ maxWidth = [s \in Scripts |-> 0]
  /\ totalHeight = [s \in Scripts |-> 0]
  /\ spritesheet = NoSheet
  /\ outputContent = NoContent
  /\ written = [s \in Scripts |-> FALSE]

-----------------------------------------------------------------------------
(* Discovery: getImageFilesRecursively (the same text in both scripts) *)

\* The names fs.promises.readdir(dir) finds; it may return them in any order.
EntryNames(dir) == tree[dir].names

\* The sequences that list every element of S once.
RECURSIVE Orderings(_)
Orderings(S) ==
  IF S = {} THEN { <<>> }
  ELSE UNION { { <<x>> \o o : o \in Orderings(S \ {x}) } : x \in S }

\* ['.png', '.jpg', '.jpeg', '.bmp', '.gif']
ImageExtensions ==
  { <<".","p","n","g">>, <<".","j","p","g">>, <<".","j","p","e","g">>,
    <<".","b","m","p">>, <<".","g","i","f">> }

\* A slip that compares the extension without lower-casing it.
HasImageExtensionCaseSensitive(name) == ExtName(name) \in ImageExtensions

\* The test of the entries.map callback on a non-directory entry.
HasImageExtension(name) == ToLowerCase(ExtName(name)) \in ImageExtensions

\* entry.isDirectory()
IsDirectory(fullPath) == tree[fullPath].isDirectory

\* What the entries.map callback resolves to for one entry, once every
\* readdir below has resolved; ls gives each directory's readdir order.
\* Promise.all keeps the order of entries, and files.flat() concatenates.
RECURSIVE GetImageFilesRecursively(_, _), FlatFrom(_, _, _)
EntryResult(ls, dir, name) ==
  LET fullPath == PathJoin(dir, name)
  IN  IF IsDirectory(fullPath) THEN GetImageFilesRecursively(ls, fullPath)
      ELSE IF HasImageExtension(name) THEN <<fullPath>>
      ELSE <<>>

FlatFrom(ls, dir, i) ==
  IF i > Len(ls[dir]) THEN <<>>
  ELSE EntryResult(ls, dir, ls[dir][i]) \o FlatFrom(ls, dir, i + 1)

GetImageFilesRecursively(ls, dir) == FlatFrom(ls, dir, 1)

\* The directories among the entries of dir: the callback starts a readdir
\* for each of them.
Subdirectories(dir) ==
  { p \in {PathJoin(dir, name) : name \in EntryNames(dir)} : IsDirectory(p) }

-----------------------------------------------------------------------------
(* Array.prototype.sort() with the default comparator *)

RECURSIVE InsertSorted(_, _)
InsertSorted(sorted, x) ==
  IF sorted = <<>> THEN <<x>>
  ELSE IF StrLess(x, Head(sorted)) THEN <<x>> \o sorted
  ELSE <<Head(sorted)>> \o InsertSorted(Tail(sorted), x)

RECURSIVE SortStrings(_)
SortStrings(arr) ==
  IF arr = <<>> THEN <<>>
  ELSE InsertSorted(SortStrings(SubSeq(arr, 1, Len(arr) - 1)), arr[Len(arr)])

\* A slip that leaves imageFiles in discovery order (atlas.js).
AtlasSortMissing(files) == files

\* imageFiles.sort() in atlas.js
AtlasSort(files) == SortStrings(files)

\* A slip that leaves imageFiles in discovery order (generate_atlas_text.js).
TextSortMissing(files) == files

\* imageFiles.sort() in generate_atlas_text.js
TextSort(files) == SortStrings(files)

SortedImageFiles(s, files) ==
  IF s = "atlas" THEN AtlasSort(files) ELSE TextSort(files)

-----------------------------------------------------------------------------
(* The codec: Jimp.read *)

\* Jimp.read(imagePath) resolves with the decoded image, or rejects: on
\* undecodable data, and on a header whose width or height is missing or
\* negative.
DimensionsValid(bitmap) ==
  /\ DOMAIN bitmap = {"width", "height"}
  /\ bitmap.width >= 0
  /\ bitmap.height >= 0

JimpReadRejects(imagePath) ==
  LET c == tree[imagePath].content
  IN  c.data # "raster" \/ ~DimensionsValid(c.bitmap)

JimpRead(imagePath) == [src |-> imagePath, bitmap |-> tree[imagePath].content.bitmap]

-----------------------------------------------------------------------------
(* Process start and discovery steps *)

\* A slip that logs the error and lets the process end with status 0.
ExitWithoutStatus(s) ==
  /\ pc' = [pc EXCEPT ![s] = "done"]
  /\ UNCHANGED exitCode

\* The catch block of the main function: process.exit(1).
ExitWithError(s) ==
  /\ pc' = [pc EXCEPT ![s] = "done"]
  /\ exitCode' = [exitCode EXCEPT ![s] = 1]

\* node atlas.js <dir> <out>: createSpritesheet() starts readdir of the root.
AtlasStart ==
  /\ pc["atlas"] = "init"
  /\ pc' = [pc EXCEPT !["atlas"] = "scanning"]
  /\ pending' = [pending EXCEPT !["atlas"] = {ImageDirectory}]
  /\ UNCHANGED <<tree, args2, prependPath, exitCode, listing, imageFiles, images,
                 imageData, maxWidth, totalHeight, spritesheet, outputContent, written>>

\* A slip that leaves out the '/' after the prefix.
PrependPathNoSlash(arg) ==
  IF arg # <<>> /\ arg[1] # <<>> THEN ReplaceBackslashes(arg[1]) ELSE <<>>

\* args[2] ? args[2].replace(/\\/g, '/') + '/' : ''   (an empty string is falsy)
PrependPathOf(arg) ==
  IF arg # <<>> /\ arg[1] # <<>> THEN ReplaceBackslashes(arg[1]) \o <<"/">> ELSE <<>>

\* node generate_atlas_text.js <dir> <out> [prepend_path]
TextStart(arg) ==
  /\ pc["text"] = "init"
  /\ args2' = arg
  /\ prependPath' = PrependPathOf(arg)
  /\ pc' = [pc EXCEPT !["text"] = "scanning"]
  /\ pending' = [pending EXCEPT !["text"] = {ImageDirectory}]
  /\ UNCHANGED <<tree, exitCode, listing, imageFiles, images, imageData, maxWidth,
                 totalHeight, spritesheet, outputContent, written>>

\* A readdir rejects: the rejection passes through every Promise.all above it
\* to the catch block of the main function.  (pending and listing stand for
\* promises and arrays of the scan; they are dropped when the scan is over.)
ReaddirFails(s, dir) ==
  /\ pc[s] = "scanning"
  /\ dir \in pending[s]
  /\ ~tree[dir].readable
  /\ ExitWithError(s)
  /\ pending' = [pending EXCEPT ![s] = {}]
  /\ listing' = [listing EXCEPT ![s] = <<>>]
  /\ UNCHANGED <<tree, args2, prependPath, imageFiles, images, imageData, maxWidth,
                 totalHeight, spritesheet, outputContent, written>>

\* The readdirs in flight once the readdir of dir has resolved and its
\* callbacks have run.
StillPending(s, dir) == (pending[s] \ {dir}) \cup Subdirectories(dir)

\* A readdir resolves while other readdirs are still in flight or are started
\* by its callbacks.
ReaddirLists(s, dir) ==
  /\ pc[s] = "scanning"
  /\ dir \in pending[s]
  /\ tree[dir].readable
  /\ StillPending(s, dir) # {}
  /\ \E order \in Orderings(EntryNames(dir)) :
        listing' = [listing EXCEPT ![s] = (dir :> order) @@ @]
  /\ pending' = [pending EXCEPT ![s] = StillPending(s, dir)]
  /\ UNCHANGED <<tree, args2, prependPath, pc, exitCode, imageFiles, images, imageData,
                 maxWidth, totalHeight, spritesheet, outputContent, written>>

\* A slip that leaves out the imageFiles.length === 0 check.
NoImageFilesUnchecked(files) == FALSE

\* if (imageFiles.length === 0)   (the same test in both scripts)
NoImageFiles(files) == Len(files) = 0

\* The last readdir resolves: the root promise resolves with files.flat().
\* With no image file the main function logs and returns; otherwise
\* imageFiles.sort() runs, the accumulators are initialised and the first
\* Jimp.read starts.
ReaddirLast(s, dir) ==
  /\ pc[s] = "scanning"
  /\ dir \in pending[s]
  /\ tree[dir].readable
  /\ StillPending(s, dir) = {}
  /\ \E order \in Orderings(EntryNames(dir)) :
        LET files == GetImageFilesRecursively((dir :> order) @@ listing[s], ImageDirectory)
        IN  IF NoImageFiles(files)
            THEN /\ pc' = [pc EXCEPT ![s] = "done"]
                 /\ UNCHANGED imageFiles
            ELSE /\ imageFiles' = [imageFiles EXCEPT ![s] = SortedImageFiles(s, files)]
                 /\ pc' = [pc EXCEPT ![s] = "probing"]
  /\ listing' = [listing EXCEPT ![s] = <<>>]
  /\ pending' = [pending EXCEPT ![s] = {}]
  /\ UNCHANGED <<tree, args2, prependPath, exitCode, images, imageData, maxWidth,
                 totalHeight, spritesheet, outputContent, written>>

-----------------------------------------------------------------------------
(* Dimension probing and layout: atlas.js *)

\* Math.max(a, b)
MathMax(a, b) == IF a >= b THEN a ELSE b

\* A slip that keeps the last width instead of the largest.
AtlasMaxWidthLast(mw, image) == image.bitmap.width

\* maxWidth = Math.max(maxWidth, image.bitmap.width)
AtlasMaxWidth(mw, image) == MathMax(mw, image.bitmap.width)

\* totalHeight += image.bitmap.height
AtlasTotalHeight(th, image) == th + image.bitmap.height

\* A slip that advances the offset by the width instead of the height.
AtlasAdvanceByWidth(yOffset, image) == yOffset + image.bitmap.width

\* yOffset += image.bitmap.height
AtlasAdvance(yOffset, image) == yOffset + image.bitmap.height

\* The composite loop: spritesheet.composite(image, 0, yOffset), then the
\* offset advances.
RECURSIVE AtlasCompositeLoop(_, _, _)
AtlasCompositeLoop(imgs, yOffset, done) ==
  IF imgs = <<>> THEN done
  ELSE AtlasCompositeLoop(Tail(imgs), AtlasAdvance(yOffset, Head(imgs)),
                          Append(done, [image |-> Head(imgs), x |-> 0, y |-> yOffset]))

\* new Jimp({ width: maxWidth, height: totalHeight, ... }) and the loop.
AtlasSpritesheet(mw, th, imgs) ==
  [width |-> mw, height |-> th, composites |-> AtlasCompositeLoop(imgs, 0, <<>>)]

\* The file whose Jimp.read is in flight.
AtlasCurrent == imageFiles["atlas"][Len(images) + 1]

\* loadImage rejects: the loop's catch rethrows, the outer catch exits.
AtlasReadFails ==
  /\ pc["atlas"] = "probing"
  /\ JimpReadRejects(AtlasCurrent)
  /\ ExitWithError("atlas")
  /\ UNCHANGED <<tree, args2, prependPath, pending, listing, imageFiles, images,
                 imageData, maxWidth, totalHeight, spritesheet, outputContent, written>>

\* loadImage resolves and another file follows.
AtlasReadNext ==
  /\ pc["atlas"] = "probing"
  /\ ~JimpReadRejects(AtlasCurrent)
  /\ Len(images) + 1 < Len(imageFiles["atlas"])
  /\ LET image == JimpRead(AtlasCurrent)
     IN  /\ images' = Append(images, image)
         /\ maxWidth' = [maxWidth EXCEPT !["atlas"] = AtlasMaxWidth(@, image)]
         /\ totalHeight' = [totalHeight EXCEPT !["atlas"] = AtlasTotalHeight(@, image)]
  /\ UNCHANGED <<tree, args2, prependPath, pc, exitCode, pending, listing, imageFiles,
                 imageData, spritesheet, outputContent, written>>

\* loadImage resolves for the last file: the canvas is created, every image
\* is composited and spritesheet.write starts.
AtlasReadLast ==
  /\ pc["atlas"] = "probing"
  /\ ~JimpReadRejects(AtlasCurrent)
  /\ Len(images) + 1 = Len(imageFiles["atlas"])
  /\ LET image == JimpRead(AtlasCurrent)
         imgs == Append(images, image)
         mw == AtlasMaxWidth(maxWidth["atlas"], image)
         th == AtlasTotalHeight(totalHeight["atlas"], image)
     IN  /\ images' = imgs
         /\ maxWidth' = [maxWidth EXCEPT !["atlas"] = mw]
         /\ totalHeight' = [totalHeight EXCEPT !["atlas"] = th]
         /\ spritesheet' = AtlasSpritesheet(mw, th, imgs)
  /\ pc' = [pc EXCEPT !["atlas"] = "writing"]
  /\ UNCHANGED <<tree, args2, prependPath, exitCode, pending, listing, imageFiles,
                 imageData, outputContent, written>>

-----------------------------------------------------------------------------
(* Dimension probing and layout: generate_atlas_text.js *)

\* getImageDimensions: { width: image.bitmap.width, height: image.bitmap.height }
\* and imageData.push({ path: imagePath, ...dimensions })
GetImageDimensions(imagePath) ==
  LET image == JimpRead(imagePath)
  IN  [path |-> imagePath, width |-> image.bitmap.width, height |-> image.bitmap.height]

\* maxWidth = Math.max(maxWidth, dimensions.width)
TextMaxWidth(mw, dimensions) == MathMax(mw, dimensions.width)

\* A slip that assigns the height instead of adding it.
TextTotalHeightAssigned(th, dimensions) == dimensions.height

\* totalHeight += dimensions.height
TextTotalHeight(th, dimensions) == th + dimensions.height

\* The first line of a region block.
RegionName(prefix, imgPath) ==
  LET relativePathWithExtension ==
        ReplaceBackslashes(PathRelative(ImageDirectory, imgPath))
      relativePathWithoutExtension ==
        Substring0(relativePathWithExtension,
                   LastIndexOf(relativePathWithExtension, "."))
  IN  prefix \o relativePathWithoutExtension

\* One region block; the lines that never vary (rotate, offset, index) are
\* left out.
RegionBlock(prefix, img, yOffset) ==
  [name |-> RegionName(prefix, img.path),
   xy   |-> << NumberToString(0), NumberToString(yOffset) >>,
   size |-> << NumberToString(img.width), NumberToString(img.height) >>,
   orig |-> << NumberToString(img.width), NumberToString(img.height) >>]

\* The loop over imageData: a block per image; yOffset += img.height.
RECURSIVE TextRegionLoop(_, _, _, _)
TextRegionLoop(prefix, data, yOffset, done) ==
  IF data = <<>> THEN done
  ELSE TextRegionLoop(prefix, Tail(data), yOffset + Head(data).height,
                      Append(done, RegionBlock(prefix, Head(data), yOffset)))

\* outputContent: the header's size line and the region blocks (the fixed
\* header lines are left out).
TextOutputContent(prefix, mw, th, data) ==
  [size    |-> << NumberToString(mw), NumberToString(th) >>,
   regions |-> TextRegionLoop(prefix, data, 0, <<>>)]

TextCurrent == imageFiles["text"][Len(imageData) + 1]

\* A slip that logs the rejection, leaves the loop and writes what it has.
TextReadFailsIgnored ==
  /\ pc["text"] = "probing"
  /\ JimpReadRejects(imageFiles["text"][Len(imageData) + 1])
  /\ pc' = [pc EXCEPT !["text"] = "writing"]
  /\ UNCHANGED <<tree, args2, prependPath, exitCode, pending, listing, imageFiles,
                 images, imageData, maxWidth, totalHeight, spritesheet, outputContent,
                 written>>

\* getImageDimensions rejects: the loop's catch rethrows, the outer catch exits.
TextReadFails ==
  /\ pc["text"] = "probing"
  /\ JimpReadRejects(TextCurrent)
  /\ ExitWithError("text")
  /\ UNCHANGED <<tree, args2, prependPath, pending, listing, imageFiles, images,
                 imageData, maxWidth, totalHeight, spritesheet, outputContent, written>>

\* getImageDimensions resolves and another file follows.
TextReadNext ==
  /\ pc["text"] = "probing"
  /\ ~JimpReadRejects(TextCurrent)
  /\ Len(imageData) + 1 < Len(imageFiles["text"])
  /\ LET dimensions == GetImageDimensions(TextCurrent)
     IN  /\ imageData' = Append(imageData, dimensions)
         /\ maxWidth' = [maxWidth EXCEPT !["text"] = TextMaxWidth(@, dimensions)]
         /\ totalHeight' = [totalHeight EXCEPT !["text"] = TextTotalHeight(@, dimensions)]
  /\ UNCHANGED <<tree, args2, prependPath, pc, exitCode, pending, listing, imageFiles,
                 images, spritesheet, outputContent, written>>

\* getImageDimensions resolves for the last file: the descriptor text is
\* built and fs.promises.writeFile starts.
TextReadLast ==
  /\ pc["text"] = "probing"
  /\ ~JimpReadRejects(TextCurrent)
  /\ Len(imageData) + 1 = Len(imageFiles["text"])
  /\ LET dimensions == GetImageDimensions(TextCurrent)
         data == Append(imageData, dimensions)
         mw == TextMaxWidth(maxWidth["text"], dimensions)
         th == TextTotalHeight(totalHeight["text"], dimensions)
     IN  /\ imageData' = data
         /\ maxWidth' = [maxWidth EXCEPT !["text"] = mw]
         /\ totalHeight' = [totalHeight EXCEPT !["text"] = th]
         /\ outputContent' = TextOutputContent(prependPath, mw, th, data)
  /\ pc' = [pc EXCEPT !["text"] = "writing"]
  /\ UNCHANGED <<tree, args2, prependPath, exitCode, pending, listing, imageFiles,
                 images, spritesheet, written>>

-----------------------------------------------------------------------------
(* Writing the output file *)

\* spritesheet.write / fs.promises.writeFile resolves: the file exists and the
\* main function returns.
WriteSucceeds(s) ==
  /\ pc[s] = "writing"
  /\ written' = [written EXCEPT ![s] = TRUE]
  /\ pc' = [pc EXCEPT ![s] = "done"]
  /\ UNCHANGED <<tree, args2, prependPath, exitCode, pending, listing, imageFiles,
                 images, imageData, maxWidth, totalHeight, spritesheet, outputContent>>

\* The write rejects (disk full, invalid path): the catch block exits.
WriteFails(s) ==
  /\ pc[s] = "writing"
  /\ ExitWithError(s)
  /\ UNCHANGED <<tree, args2, prependPath, pending, listing, imageFiles, images,
                 imageData, maxWidth, totalHeight, spritesheet, outputContent, written>>

-----------------------------------------------------------------------------

Next ==
  \/ AtlasStart
  \/ \E arg \in PrefixArguments : TextStart(arg)
  \/ \E s \in Scripts : \E dir \in pending[s] : ReaddirFails(s, dir)
  \/ \E s \in Scripts : \E dir \in pending[s] : ReaddirLists(s, dir)
  \/ \E s \in Scripts : \E dir \in pending[s] : ReaddirLast(s, dir)
  \/ AtlasReadFails
  \/ AtlasReadNext
  \/ AtlasReadLast
  \/ TextReadFails
  \/ TextReadNext
  \/ TextReadLast
  \/ \E s \in Scripts : WriteSucceeds(s)
  \/ \E s \in Scripts : WriteFails(s)

Spec == Init /\ [][Next]_vars

-----------------------------------------------------------------------------
(* Vocabulary of the properties, stated from the input tree and the outputs *)

RECURSIVE SeqSum(_)
SeqSum(seq) == IF seq = <<>> THEN 0 ELSE Head(seq) + SeqSum(Tail(seq))

\* The largest element of a sequence of numbers (0 for the empty sequence).
SeqMax(seq) ==
  IF seq = <<>> THEN 0
  ELSE CHOOSE m \in {seq[i] : i \in DOMAIN seq} : \A i \in DOMAIN seq : seq[i] <= m

Range(seq) == {seq[i] : i \in DOMAIN seq}

\* The number a string of decimal digits denotes.
RECURSIVE DecimalValue(_)
DecimalValue(str) ==
  IF str = <<>> THEN 0
  ELSE 10 * DecimalValue(SubSeq(str, 1, Len(str) - 1)) + (Code[str[Len(str)]] - Code["0"])

\* Lexicographic order of strings by code unit: b continues a, or at the first
\* position where they differ a has the smaller code unit.
LexLess(a, b) ==
  \/ Len(a) < Len(b) /\ SubSeq(b, 1, Len(a)) = a
  \/ \E k \in 1..Len(a) :
        /\ k <= Len(b)
        /\ SubSeq(a, 1, k - 1) = SubSeq(b, 1, k - 1)
        /\ Code[a[k]] < Code[b[k]]

\* A path whose last component has an image extension: it ends, whatever the
\* case, in a '.' and the letters of one of the five extensions, and that '.'
\* is not the first character of the component.
IsImagePath(p) ==
  \E n \in {3, 4} :
     LET dot == Len(p) - n
     IN  /\ dot > 1
         /\ p[dot] = "."
         /\ p[dot - 1] # "/"
         /\ [k \in 1..n |-> LowerChar(p[dot + k])] \in
               { <<"p","n","g">>, <<"j","p","g">>, <<"j","p","e","g">>,
                 <<"b","m","p">>, <<"g","i","f">> }

\* The image files of the input tree.
TreeImages == { p \in DOMAIN tree : ~tree[p].isDirectory /\ IsImagePath(p) }

LockedDirectories == { p \in DOMAIN tree : tree[p].isDirectory /\ ~tree[p].readable }

\* A header that declares a negative or no width or height.
BadHeader(c) ==
  /\ c.data = "raster"
  /\ \/ DOMAIN c.bitmap # {"width", "height"}
     \/ c.bitmap.width < 0
     \/ c.bitmap.height < 0

BadDimensionImages ==
  { p \in DOMAIN tree : ~tree[p].isDirectory /\ BadHeader(tree[p].content) /\ IsImagePath(p) }

UndecodableImages ==
  { p \in DOMAIN tree :
       ~tree[p].isDirectory /\ tree[p].content.data = "garbage" /\ IsImagePath(p) }

\* The layouts, once computed: the canvas and the placements of each script.
AtlasLaidOut == spritesheet.composites # <<>>
TextLaidOut == outputContent.regions # <<>>

AtlasCanvas == [width |-> spritesheet.width, height |-> spritesheet.height]

AtlasPlacements ==
  [i \in DOMAIN spritesheet.composites |->
     [x      |-> spritesheet.composites[i].x,
      y      |-> spritesheet.composites[i].y,
      width  |-> spritesheet.composites[i].image.bitmap.width,
      height |-> spritesheet.composites[i].image.bitmap.height]]

\* The descriptor, parsed.
TextCanvas ==
  [width  |-> DecimalValue(outputContent.size[1]),
   height |-> DecimalValue(outputContent.size[2])]

TextPlacements ==
  [i \in DOMAIN outputContent.regions |->
     [x      |-> DecimalValue(outputContent.regions[i].xy[1]),
      y      |-> DecimalValue(outputContent.regions[i].xy[2]),
      width  |-> DecimalValue(outputContent.regions[i].size[1]),
      height |-> DecimalValue(outputContent.regions[i].size[2])]]

AtlasWidths == [i \in DOMAIN images |-> images[i].bitmap.width]
AtlasHeights == [i \in DOMAIN images |-> images[i].bitmap.height]
TextWidths == [i \in DOMAIN imageData |-> imageData[i].width]
TextHeights == [i \in DOMAIN imageData |-> imageData[i].height]

\* The files a script has probed successfully so far.
Probed(s) ==
  IF s = "atlas" THEN [i \in DOMAIN images |-> images[i].src]
  ELSE [i \in DOMAIN imageData |-> imageData[i].path]

-----------------------------------------------------------------------------
(* C1 *)

\* C1: the canvas each script computes has height equal to the sum of the
\* heights of the probed images and width equal to the largest of their widths.
C1_CanvasIsSumAndMax ==
  /\ AtlasLaidOut =>
       /\ AtlasCanvas.height = SeqSum(AtlasHeights)
       /\ AtlasCanvas.width = SeqMax(AtlasWidths)
  /\ TextLaidOut =>
       /\ TextCanvas.height = SeqSum(TextHeights)
       /\ TextCanvas.width = SeqMax(TextWidths)

\* Both canvases computed over three images, the widest of which is not the
\* last.
C1_Witness ==
  /\ AtlasLaidOut /\ TextLaidOut
  /\ Len(images) = 3 /\ Len(imageData) = 3
  /\ AtlasCanvas = [width |-> 1, height |-> 3]
  /\ images[3].bitmap.width = 0

-----------------------------------------------------------------------------
(* C2 *)

\* C2: over the same tree the descriptor and the spritesheet describe the same
\* layout: the header size is the canvas size, and the i-th region block has
\* the offset and size of the i-th composited image, the images being taken
\* in the same order by both scripts.
C2_SameLayout ==
  (AtlasLaidOut /\ TextLaidOut) =>
     /\ TextCanvas = AtlasCanvas
     /\ TextPlacements = AtlasPlacements
     /\ Probed("text") = Probed("atlas")
     /\ \A i \in DOMAIN images : images[i].bitmap = tree[images[i].src].content.bitmap

\* Both output files written, for a tree with images in nested directories.
C2_Witness ==
  /\ written["atlas"] /\ written["text"]
  /\ Len(images) = 2
  /\ ACDGif \in DOMAIN tree
  /\ AtlasPlacements[2].y = 1

-----------------------------------------------------------------------------
(* C3 *)

Contiguous(placements, i, j) == placements[i].y + placements[i].height = placements[j].y

\* C3 as stated: for any two placements i < j, placement[i].y +
\* placement[i].height = placement[j].y.
C3_AllPairsContiguous ==
  /\ \A i, j \in DOMAIN AtlasPlacements : i < j => Contiguous(AtlasPlacements, i, j)
  /\ \A i, j \in DOMAIN TextPlacements : i < j => Contiguous(TextPlacements, i, j)

\* C3 amended: for any two consecutive placements i, i + 1, placement[i].y +
\* placement[i].height = placement[i + 1].y, and the first placement is at 0.
C3_ConsecutiveContiguous ==
  /\ \A i, j \in DOMAIN AtlasPlacements : j = i + 1 => Contiguous(AtlasPlacements, i, j)
  /\ \A i, j \in DOMAIN TextPlacements : j = i + 1 => Contiguous(TextPlacements, i, j)
  /\ AtlasLaidOut => AtlasPlacements[1].y = 0
  /\ TextLaidOut => TextPlacements[1].y = 0

\* Three images of positive height and differing widths stacked by both
\* scripts.
C3_Witness ==
  /\ AtlasLaidOut /\ TextLaidOut
  /\ Len(AtlasPlacements) = 3
  /\ \A i \in 1..3 : AtlasPlacements[i].height = 1
  /\ AtlasPlacements[1].width = 0
  /\ TextPlacements[3].y = 2

-----------------------------------------------------------------------------
(* C4 *)

Inside(placement, canvas) ==
  /\ placement.x = 0
  /\ placement.y >= 0
  /\ placement.y + placement.height <= canvas.height
  /\ placement.x + placement.width <= canvas.width

NoOverlap(placements) ==
  \A i, j \in DOMAIN placements :
     i < j => placements[i].y + placements[i].height <= placements[j].y

\* C4: no two placements overlap and every placement lies inside the canvas.
C4_DisjointInsideCanvas ==
  /\ NoOverlap(AtlasPlacements)
  /\ NoOverlap(TextPlacements)
  /\ \A i \in DOMAIN AtlasPlacements : Inside(AtlasPlacements[i], AtlasCanvas)
  /\ \A i \in DOMAIN TextPlacements : Inside(TextPlacements[i], TextCanvas)

\* A descriptor written for three images, the last of which reaches the
\* bottom edge of the canvas and the first of which is narrower than it.
C4_Witness ==
  /\ written["text"]
  /\ Len(TextPlacements) = 3
  /\ TextPlacements[3].y + TextPlacements[3].height = TextCanvas.height
  /\ TextPlacements[3].height = 1
  /\ TextPlacements[2].height = 1
  /\ TextPlacements[1].width < TextCanvas.width

-----------------------------------------------------------------------------
(* C5 *)

\* The write step has been started, or has completed.
WriteStarted(s) == pc[s] = "writing" \/ written[s]

\* C5: with a directory that cannot be listed or an image that cannot be
\* decoded in the tree, neither script ever starts its write step, and each
\* ends with exit status 1; a write is started only once every image of the
\* tree has been probed successfully.
C5_FailureAborts ==
  /\ (LockedDirectories # {} \/ UndecodableImages # {}) =>
        \A s \in Scripts :
           /\ ~WriteStarted(s)
           /\ pc[s] = "done" => exitCode[s] = 1
  /\ \A s \in Scripts :
        WriteStarted(s) =>
           LET discovered == TreeImages
           IN  /\ Range(Probed(s)) = discovered
               /\ Len(Probed(s)) = Cardinality(discovered)

\* The image builder has exited with status 1 on an undecodable image after
\* probing another image successfully, and the descriptor builder has exited
\* with status 1 too.
C5_Witness ==
  /\ pc["atlas"] = "done" /\ exitCode["atlas"] = 1
  /\ pc["text"] = "done" /\ exitCode["text"] = 1
  /\ Len(images) = 1
  /\ Len(imageFiles["atlas"]) > 1
  /\ imageFiles["atlas"][2] \in UndecodableImages

-----------------------------------------------------------------------------
(* C6 *)

-----------------------------------------------------------------------------
(* C7 *)

Ascending(paths) == \A i \in 1..(Len(paths) - 1) : LexLess(paths[i], paths[i + 1])

\* C7: whatever order the readdirs return their entries in and complete in,
\* the path sequence used for layout is the image paths of the tree in
\* ascending lexicographic order of the full path, the same for every run.
C7_DeterministicOrder ==
  /\ LET matching == TreeImages
     IN  \A s \in Scripts :
            imageFiles[s] # <<>> =>
               /\ Ascending(imageFiles[s])
               /\ Range(imageFiles[s]) = matching
  /\ (imageFiles["atlas"] # <<>> /\ imageFiles["text"] # <<>>) =>
        imageFiles["atlas"] = imageFiles["text"]

\* Both scripts hold the sorted paths of a tree whose images lie in two
\* directories scanned concurrently.
C7_Witness ==
  /\ imageFiles["atlas"] = <<ACDGif, DPngEBmp>>
  /\ imageFiles["text"] = <<ACDGif, DPngEBmp>>

-----------------------------------------------------------------------------
(* C8 *)

\* C8: over a tree without image files, all of whose directories can be
\* listed, neither script probes an image or starts a write, and each ends
\* with exit status 0.
C8_NoImagesNoOutput ==
  (TreeImages = {} /\ LockedDirectories = {}) =>
     \A s \in Scripts :
        /\ pc[s] \in {"init", "scanning", "done"}
        /\ ~WriteStarted(s)
        /\ Probed(s) = <<>>
        /\ exitCode[s] = 0

\* Both scripts have ended over a tree that holds only non-image files and an
\* empty directory.
C8_Witness ==
  /\ pc["atlas"] = "done" /\ pc["text"] = "done"
  /\ CTxt \in DOMAIN tree
  /\ TreeImages = {}

-----------------------------------------------------------------------------
(* C9 *)

\* C9: discovery returns exactly the non-directory entries, at any depth,
\* whose name has an image extension whatever its case, each once: no
\* directory and no other file is in the result or in either output.
C9_ExactlyTheImageFiles ==
  LET expected == TreeImages
  IN  \A s \in Scripts :
         /\ imageFiles[s] # <<>> =>
               /\ Range(imageFiles[s]) = expected
               /\ Len(imageFiles[s]) = Cardinality(expected)
         /\ (pc[s] = "done" /\ exitCode[s] = 0 /\ ~written[s]) => expected = {}
         /\ Range(Probed(s)) \subseteq expected
         /\ WriteStarted(s) =>
               Len(IF s = "atlas" THEN spritesheet.composites ELSE outputContent.regions)
                  = Cardinality(expected)

\* Discovery has returned the two images of a tree that also holds a text
\* file and a directory, one image lying in the directory.
C9_Witness ==
  /\ CTxt \in DOMAIN tree
  /\ imageFiles["text"] = <<APng, ABJpeg>>
  /\ written["atlas"]

-----------------------------------------------------------------------------
(* C10 *)

\* The part of path p below the scanned root.
BelowRoot(p) == CHOOSE r \in {SubSeq(p, k, Len(p)) : k \in 1..(Len(p) + 1)} :
                  p = ImageDirectory \o <<"/">> \o r

\* A name up to, and without, its last '.'.
WithoutExtension(n) ==
  LET dots == {k \in DOMAIN n : n[k] = "."}
  IN  IF dots = {} THEN <<>>
      ELSE SubSeq(n, 1, (CHOOSE k \in dots : \A m \in dots : m <= k) - 1)

\* A string with every '\' turned into '/'.
ForwardSlashes(n) == [k \in DOMAIN n |-> IF n[k] = "\\" THEN "/" ELSE n[k]]

RegionNames == [i \in DOMAIN outputContent.regions |-> outputContent.regions[i].name]
RegionPaths == [i \in DOMAIN imageData |-> imageData[i].path]

\* C10 as stated: in the descriptor every region name is the image's path
\* relative to the root with the extension stripped, preceded by the supplied
\* path_prefix and "/" when a prefix is supplied, and alone when none is.
C10_NamesAsStated ==
  TextLaidOut =>
    /\ Len(RegionNames) = Len(RegionPaths)
    /\ \A i \in DOMAIN RegionNames :
         RegionNames[i] =
           (IF args2 # <<>> THEN args2[1] \o <<"/">> ELSE <<>>)
             \o WithoutExtension(BelowRoot(RegionPaths[i]))

\* C10, amended: every region name is the image's path relative to the root
\* with every backslash replaced by "/" and the extension stripped; when a
\* non-empty path_prefix is supplied the name is the prefix with every
\* backslash replaced by "/", then "/", then that relative name; when no
\* prefix, or an empty one, is supplied the name is the relative name alone.
C10_NamesNormalised ==
  TextLaidOut =>
    /\ Len(RegionNames) = Len(RegionPaths)
    /\ \A i \in DOMAIN RegionNames :
         RegionNames[i] =
           (IF args2 # <<>> /\ args2[1] # <<>>
              THEN ForwardSlashes(args2[1]) \o <<"/">> ELSE <<>>)
             \o WithoutExtension(ForwardSlashes(BelowRoot(RegionPaths[i])))

\* A descriptor with several regions, one of them for a file whose name holds
\* a backslash, built with a prefix that holds a backslash.
C10_Witness ==
  /\ TextLaidOut
  /\ Len(RegionNames) >= 2
  /\ args2 = << <<"s", "\\", "t">> >>
  /\ \E i \in DOMAIN RegionPaths : "\\" \in Range(RegionPaths[i])

=============================================================================
